---- MODULE Spec2Model ----
(***************************************************************************)
(* Daft.ie Room Hunter Bot (src/main.py): the seen-listings store, the id  *)
(* derivation, the card extraction loop and the scan cycle of main().      *)
(*                                                                         *)
(* Text (URLs, ids, price texts, the content of seen_listings.txt) is a    *)
(* sequence of one-character strings; a few longer atoms ("daft.ie",       *)
(* "N/A", ...) stand for runs of ordinary characters that contain none of  *)
(* the characters the code looks at ('-', '/', digits, whitespace).        *)
(***************************************************************************)
EXTENDS Integers, Sequences, FiniteSets, TLC

VARIABLES
    pc,                 \* position of the running process
    file_exists,        \* Path(SEEN_LISTINGS_FILE).exists()
    file,               \* content of seen_listings.txt, a sequence of characters
    creds,              \* EMAIL_ADDRESS and EMAIL_APP_PASSWORD are both set
    seen_listings,      \* main(): the in-memory set of seen ids
    listings,           \* main(): the list returned by search_daft_listings()
    i,                  \* main(): index of the listing the loop is at (1-based)
    sent,               \* main(): value returned by the last send_email_notification
    new_listings_count, \* main(): counter (0 while not yet assigned)
    email_sent_count,   \* main(): counter (0 while not yet assigned)
    cycle,              \* history: number of scan cycles started
    crashed,            \* history: some cycle was killed inside main()
    initSeen,           \* history: ids in the store before the first cycle
    seenAtStart,        \* history: the set loaded at the start of this cycle
    storeAtStart,       \* history: ids in the store when this cycle started
    fetch_failed,       \* history: this cycle's fetch raised
    raw_cards,          \* history: the cards this cycle's page held
    attempts,           \* history: notify calls of this cycle, in order
    trace,              \* history: outcome of each loop iteration of this cycle
    succeeded,          \* history: ids whose notify call returned True, ever
    succeededPrev,      \* history: the same, in cycles before this one
    url,                \* argument of a direct call of extract_listing_id
    listing_id,         \* argument of save_listing_id / result of extract_listing_id
    saves,              \* number of direct save_listing_id calls made
    store_missing       \* history: no store existed when this cycle started

vars == << pc, file_exists, file, creds, seen_listings, listings, i, sent,
           new_listings_count, email_sent_count, cycle, crashed, initSeen,
           seenAtStart, storeAtStart, fetch_failed, raw_cards, attempts, trace,
           succeeded, succeededPrev, url, listing_id, saves, store_missing >>

mainVars == << creds, seen_listings, listings, i, sent, new_listings_count,
               email_sent_count, cycle, crashed, initSeen, seenAtStart,
               storeAtStart, fetch_failed, raw_cards, attempts, trace,
               succeeded, succeededPrev, store_missing >>

----------------------------------------------------------------------------
(* Configuration, src/main.py:35-36 *)
PRICE_MIN == 1000
PRICE_MAX == 1700

(* Bounds of the model *)
MaxUrlLen == 3
MaxIdLen == 2
MaxSaves == 3
MaxCards == 2
MaxCycles == 2

----------------------------------------------------------------------------
(* Characters *)
Digits == {"0", "1", "2", "3", "4", "5", "6", "7", "8", "9"}
Whitespace == {" ", "\n", "\t", "\r"}

IsDigit(c) == c \in Digits

(* all sequences over S of length 0..n *)
SeqsUpTo(S, n) == UNION {[1..k -> S] : k \in 0..n}

Range(s) == {s[k] : k \in 1..Len(s)}

----------------------------------------------------------------------------
(* str.strip(): drop leading and trailing whitespace *)
RECURSIVE LStrip(_)
LStrip(s) ==
    IF s # <<>> /\ Head(s) \in Whitespace THEN LStrip(Tail(s)) ELSE s

RECURSIVE RStrip(_)
RStrip(s) ==
    IF s # <<>> /\ s[Len(s)] \in Whitespace
    THEN RStrip(SubSeq(s, 1, Len(s) - 1))
    ELSE s

Strip(s) == RStrip(LStrip(s))

(* str.replace(old, new) for single characters *)
Replace(s, old, new) == [k \in 1..Len(s) |-> IF s[k] = old THEN new ELSE s[k]]

(* str.split(sep) for a single-character separator: always at least one    *)
(* piece, an empty piece after a trailing separator                         *)
RECURSIVE SplitFrom(_, _, _, _)
SplitFrom(s, sep, k, cur) ==
    IF k > Len(s) THEN << cur >>
    ELSE IF s[k] = sep THEN << cur >> \o SplitFrom(s, sep, k + 1, <<>>)
    ELSE SplitFrom(s, sep, k + 1, Append(cur, s[k]))

Split(s, sep) == SplitFrom(s, sep, 1, <<>>)

----------------------------------------------------------------------------
(* extract_listing_id, src/main.py:184-189 *)

(* end of the greedy \d+ run that starts at position p *)
RECURSIVE DigitRunEnd(_, _)
DigitRunEnd(s, p) ==
    IF p <= Len(s) /\ IsDigit(s[p]) THEN DigitRunEnd(s, p + 1) ELSE p

(* '$' without re.MULTILINE: at the end, or just before a final newline *)
AtEnd(s, p) == p = Len(s) + 1 \/ (p = Len(s) /\ s[p] = "\n")

(* '/?$' at position p *)
SlashOptEndMut(s, p) == AtEnd(s, p)
SlashOptEnd(s, p) ==
    \/ (p <= Len(s) /\ s[p] = "/" /\ AtEnd(s, p + 1))
    \/ AtEnd(s, p)

(* the pattern -(\d+)/?$ anchored at position p *)
MatchAt(s, p) ==
    LET e == DigitRunEnd(s, p + 1)
    IN  /\ s[p] = "-"
        /\ e > p + 1
        /\ SlashOptEnd(s, e)

(* re.search: the leftmost position where the pattern matches *)
RECURSIVE re_search(_, _)
re_search(s, p) ==
    IF p > Len(s) THEN [matched |-> FALSE, group1 |-> <<>>]
    ELSE IF MatchAt(s, p)
         THEN [matched |-> TRUE,
               group1 |-> SubSeq(s, p + 1, DigitRunEnd(s, p + 1) - 1)]
         ELSE re_search(s, p + 1)

extract_listing_id(u) ==
    LET match == re_search(u, 1)
        parts == Split(u, "/")
    IN  IF match.matched THEN match.group1 ELSE parts[Len(parts)]

----------------------------------------------------------------------------
(* The seen-listings store, src/main.py:47-66 *)

(* the set comprehension of load_seen_listings: the stripped, non-empty     *)
(* lines of the file                                                        *)
NonEmptyLine(line) == Strip(line) # <<>>

seen_ids(content) ==
    {Strip(line) : line \in {l \in Range(Split(content, "\n")) : NonEmptyLine(l)}}

(* load_seen_listings(): the returned set, and the file it leaves behind    *)
load_seen_listingsMut(exists, content) ==
    IF ~exists
    THEN [ret |-> {}, exists |-> FALSE, content |-> <<>>]
    ELSE [ret |-> seen_ids(content), exists |-> TRUE, content |-> content]
load_seen_listings(exists, content) ==
    IF ~exists
    THEN [ret |-> {}, exists |-> TRUE, content |-> <<>>]
    ELSE [ret |-> seen_ids(content), exists |-> TRUE, content |-> content]

(* save_listing_id(listing_id): the content of the file after the append    *)
save_listing_idMut(content, id) == id \o << "\n" >>
save_listing_idMut2(content, id) == content \o id
save_listing_id(content, id) == content \o id \o << "\n" >>

(* stores earlier runs can have left behind: none, an empty one, one id *)
InitFiles ==
    { [exists |-> FALSE, content |-> <<>>],
      [exists |-> TRUE, content |-> <<>>],
      [exists |-> TRUE, content |-> << "1", "\n" >>] }

----------------------------------------------------------------------------
(* parse_price, src/main.py:192-197 *)
parse_price(price_text) ==
    IF price_text = <<>> THEN << "N/A" >>
    ELSE Replace(Strip(price_text), "\n", " ")

----------------------------------------------------------------------------
(* The per-card part of search_daft_listings, src/main.py:266-328.          *)
(* A card is what the page gives for one element of listing_cards:          *)
(*   broken      reading the card raises something other than               *)
(*               NoSuchElementException (e.g. a stale element)              *)
(*   link_found  the card is, or contains, an <a href*='/for-rent/'>        *)
(*   href        its href attribute, <<>> for None                          *)
(*   price_src   "testid", "euro" (found by the XPath fallback) or "none"   *)
(*   title_src   "h2", "h3" or "none";  addr_found: [data-testid=address]   *)

Contains(s, atom) == \E k \in 1..Len(s) : s[k] = atom

(* lines 270-277: the card has a usable link *)
has_link(card) ==
    /\ card.link_found
    /\ card.href # <<>>
    /\ Contains(card.href, "daft.ie")

(* lines 283-290 *)
card_price_text(card) ==
    IF card.price_src \in {"testid", "euro"} THEN card.price_text ELSE << "N/A" >>

(* lines 295-303 *)
card_title(card) ==
    IF card.title_src \in {"h2", "h3"} THEN Strip(card.title_text) ELSE << "No title" >>

(* lines 306-310 *)
card_address(card) ==
    IF card.addr_found THEN Strip(card.addr_text) ELSE card_title(card)

(* lines 312-318 *)
listing_data(card) ==
    [id |-> extract_listing_id(card.href),
     price |-> parse_price(card_price_text(card)),
     address |-> card_address(card),
     title |-> card_title(card),
     link |-> card.href]

(* lines 267-325: one pass of the loop body appends a record or skips *)
card_keptMut(card) == ~card.broken /\ has_link(card) /\ card.price_src # "none"
card_kept(card) == ~card.broken /\ has_link(card)

(* lines 266-328: results, in card order *)
parse_cardsMut(cards) ==
    IF \E k \in 1..Len(cards) : ~card_kept(cards[k]) THEN <<>>
    ELSE [k \in 1..Len(cards) |-> listing_data(cards[k])]
RECURSIVE parse_cards(_)
parse_cards(cards) ==
    IF cards = <<>> THEN <<>>
    ELSE (IF card_kept(Head(cards)) THEN << listing_data(Head(cards)) >> ELSE <<>>)
         \o parse_cards(Tail(cards))

(* search_daft_listings, src/main.py:200-337: [] when anything raises       *)
(* outside the per-card try                                                 *)
search_daft_listingsMut(cards, raises) == parse_cards(cards)
search_daft_listings(cards, raises) ==
    IF raises THEN <<>> ELSE parse_cards(cards)

----------------------------------------------------------------------------
(* send_email_notification, src/main.py:69-135: False without credentials   *)
(* and when anything in the SMTP exchange raises                            *)
send_email_notification(has_creds, smtp_ok) ==
    IF ~has_creds THEN FALSE ELSE smtp_ok

----------------------------------------------------------------------------
(* Direct calls of extract_listing_id on every short URL *)
UrlAlphabet == {"a", "-", "/", "1", "2"}
Urls == SeqsUpTo(UrlAlphabet, MaxUrlLen)

Idle ==
    /\ file_exists = FALSE /\ file = <<>> /\ creds = TRUE
    /\ seen_listings = {} /\ listings = <<>> /\ i = 0 /\ sent = FALSE
    /\ new_listings_count = 0 /\ email_sent_count = 0
    /\ cycle = 0 /\ crashed = FALSE /\ initSeen = {} /\ seenAtStart = {}
    /\ storeAtStart = {} /\ fetch_failed = FALSE /\ raw_cards = <<>>
    /\ attempts = <<>> /\ trace = <<>> /\ succeeded = {} /\ succeededPrev = {}
    /\ store_missing = FALSE

InitId ==
    /\ Idle
    /\ pc = "id_call"
    /\ url \in Urls
    /\ listing_id = <<>>
    /\ saves = 0

ExtractId ==
    /\ pc = "id_call"
    /\ listing_id' = extract_listing_id(url)
    /\ pc' = "id_returned"
    /\ UNCHANGED << file_exists, file, url, saves >>
    /\ UNCHANGED mainVars

NextId == ExtractId

SpecId == InitId /\ [][NextId]_vars

----------------------------------------------------------------------------
(* The pages a fetch can give *)

ForRent == << "https:", "/", "/", "www.", "daft.ie", "/", "for", "-", "rent", "/" >>

Card(broken, link_found, href, price_src, price_text, title_src, addr_found) ==
    [broken |-> broken, link_found |-> link_found, href |-> href,
     price_src |-> price_src, price_text |-> price_text,
     title_src |-> title_src, title_text |-> << "Room", " " >>,
     addr_found |-> addr_found, addr_text |-> << " ", "Dublin" >>]

(* .../for-rent/room-1, priced at PRICE_MIN *)
CardRoom1 ==
    Card(FALSE, TRUE, ForRent \o << "room", "-", "1" >>,
         "testid", << "E", "1", "0", "0", "0", " ", "per month" >>, "h2", TRUE)

(* .../for-rent/room-2, priced at PRICE_MAX + 1 *)
CardRoom2 ==
    Card(FALSE, TRUE, ForRent \o << "room", "-", "2" >>,
         "euro", << " ", "E", "1", ",", "7", "0", "1", "\n", "per month" >>, "h3", FALSE)

(* .../for-rent/studio/, no numeric suffix, priced at PRICE_MAX *)
CardStudio ==
    Card(FALSE, TRUE, ForRent \o << "studio", "/" >>,
         "testid", << "E", "1", "7", "0", "0" >>, "none", FALSE)

(* a second link to room 1 (.../for-rent/room-1/), with no price on it *)
CardRoom1Again ==
    Card(FALSE, TRUE, ForRent \o << "room", "-", "1", "/" >>,
         "none", <<>>, "h2", TRUE)

(* a card without a listing link *)
CardNoLink ==
    Card(FALSE, FALSE, <<>>, "testid", << "E", "1", "2", "0", "0" >>, "h2", TRUE)

(* a card that raises while it is read *)
CardBroken ==
    Card(TRUE, TRUE, ForRent \o << "room", "-", "2" >>,
         "testid", << "E", "1", "5", "0", "0" >>, "h2", TRUE)

Cards == {CardRoom1, CardRoom2, CardStudio, CardRoom1Again, CardNoLink, CardBroken}

Pages == SeqsUpTo(Cards, MaxCards)

----------------------------------------------------------------------------
(* main(), src/main.py:340-383, one process per scan cycle *)

Running == {"load", "search", "check", "notify", "save", "add"}

Init ==
    /\ \E f \in InitFiles :
          /\ file_exists = f.exists
          /\ file = f.content
          /\ initSeen = seen_ids(f.content)
    /\ pc = "idle"
    /\ creds = TRUE
    /\ seen_listings = {} /\ listings = <<>> /\ i = 0 /\ sent = FALSE
    /\ new_listings_count = 0 /\ email_sent_count = 0
    /\ cycle = 0 /\ crashed = FALSE /\ seenAtStart = {}
    /\ storeAtStart = {} /\ fetch_failed = FALSE /\ raw_cards = <<>>
    /\ attempts = <<>> /\ trace = <<>> /\ succeeded = {} /\ succeededPrev = {}
    /\ url = <<>> /\ listing_id = <<>> /\ saves = 0
    /\ store_missing = FALSE

(* the scheduler starts a process; lines 38-39 read the credentials *)
StartCycle ==
    /\ pc \in {"idle", "done", "killed"}
    /\ cycle < MaxCycles
    /\ cycle' = cycle + 1
    /\ creds' \in BOOLEAN
    /\ pc' = "load"
    /\ seen_listings' = {} /\ listings' = <<>> /\ i' = 0 /\ sent' = FALSE
    /\ new_listings_count' = 0 /\ email_sent_count' = 0
    /\ seenAtStart' = {} /\ storeAtStart' = seen_ids(file)
    /\ fetch_failed' = FALSE /\ raw_cards' = <<>>
    /\ attempts' = <<>> /\ trace' = <<>>
    /\ succeededPrev' = succeeded
    /\ store_missing' = ~file_exists
    /\ UNCHANGED << file_exists, file, crashed, initSeen, succeeded,
                    url, listing_id, saves >>

(* line 348 *)
Load ==
    /\ pc = "load"
    /\ LET r == load_seen_listings(file_exists, file)
       IN  /\ seen_listings' = r.ret
           /\ seenAtStart' = r.ret
           /\ file_exists' = r.exists
           /\ file' = r.content
    /\ pc' = "search"
    /\ UNCHANGED << creds, listings, i, sent, new_listings_count,
                    email_sent_count, cycle, crashed, initSeen, storeAtStart,
                    fetch_failed, raw_cards, attempts, trace, succeeded,
                    succeededPrev, url, listing_id, saves,
                    store_missing >>

(* line 361: the loop goes to the next listing, or lines 380-383 end main *)
next_listing(n, k) == IF k > n THEN "done" ELSE "check"

(* lines 351-359 *)
Search ==
    /\ pc = "search"
    /\ \E raises \in BOOLEAN :
       \E cards \in Pages :
          /\ fetch_failed' = raises
          /\ raw_cards' = cards
          /\ listings' = search_daft_listings(cards, raises)
    /\ IF listings' = <<>>
       THEN /\ pc' = "done"
            /\ UNCHANGED << i, new_listings_count, email_sent_count >>
       ELSE /\ new_listings_count' = 0
            /\ email_sent_count' = 0
            /\ i' = 1
            /\ pc' = "check"
    /\ UNCHANGED << file_exists, file, creds, seen_listings, sent, cycle,
                    crashed, initSeen, seenAtStart, storeAtStart, attempts,
                    trace, succeeded, succeededPrev, url, listing_id, saves,
                    store_missing >>

(* line 364 *)
is_seenMut(id, seen) == FALSE
is_seen(id, seen) == id \in seen

(* lines 362-369 *)
Check ==
    /\ pc = "check"
    /\ IF is_seen(listings[i].id, seen_listings)
       THEN /\ trace' = Append(trace, "skip")
            /\ i' = i + 1
            /\ pc' = next_listing(Len(listings), i')
            /\ UNCHANGED new_listings_count
       ELSE /\ new_listings_count' = new_listings_count + 1
            /\ pc' = "notify"
            /\ UNCHANGED << trace, i >>
    /\ UNCHANGED << file_exists, file, creds, seen_listings, listings, sent,
                    email_sent_count, cycle, crashed, initSeen, seenAtStart,
                    storeAtStart, fetch_failed, raw_cards, attempts,
                    succeeded, succeededPrev, url, listing_id, saves,
                    store_missing >>

(* line 372: the branch taken on the value send_email_notification returns *)
mark_as_seenMut(ok) == TRUE
mark_as_seen(ok) == ok

(* lines 377-378 and back to line 361 *)
after_failureMut(n, k) == "done"
after_failure(n, k) == next_listing(n, k)

(* lines 372, 377-378 *)
Notify ==
    /\ pc = "notify"
    /\ \E smtp_ok \in BOOLEAN :
          sent' = send_email_notification(creds, smtp_ok)
    /\ attempts' = Append(attempts, [idx |-> i, id |-> listings[i].id, ok |-> sent'])
    /\ succeeded' = IF sent' THEN succeeded \cup {listings[i].id} ELSE succeeded
    /\ IF mark_as_seen(sent')
       THEN /\ pc' = "save"
            /\ UNCHANGED << trace, i >>
       ELSE /\ trace' = Append(trace, "failed")
            /\ i' = i + 1
            /\ pc' = after_failure(Len(listings), i')
    /\ UNCHANGED << file_exists, file, creds, seen_listings, listings,
                    new_listings_count, email_sent_count, cycle, crashed,
                    initSeen, seenAtStart, storeAtStart, fetch_failed,
                    raw_cards, succeededPrev, url, listing_id, saves,
                    store_missing >>

(* line 374 *)
Save ==
    /\ pc = "save"
    /\ file' = save_listing_id(file, listings[i].id)
    /\ file_exists' = TRUE
    /\ pc' = "add"
    /\ UNCHANGED << creds, seen_listings, listings, i, sent,
                    new_listings_count, email_sent_count, cycle, crashed,
                    initSeen, seenAtStart, storeAtStart, fetch_failed,
                    raw_cards, attempts, trace, succeeded, succeededPrev,
                    url, listing_id, saves,
                    store_missing >>

(* line 375 *)
add_seenMut(seen, id) == seen
add_seen(seen, id) == seen \cup {id}

(* lines 375-376 and back to line 361 *)
Add ==
    /\ pc = "add"
    /\ seen_listings' = add_seen(seen_listings, listings[i].id)
    /\ email_sent_count' = email_sent_count + 1
    /\ trace' = Append(trace, "sent")
    /\ i' = i + 1
    /\ pc' = next_listing(Len(listings), i')
    /\ UNCHANGED << file_exists, file, creds, listings, sent,
                    new_listings_count, cycle, crashed, initSeen, seenAtStart,
                    storeAtStart, fetch_failed, raw_cards, attempts,
                    succeeded, succeededPrev, url, listing_id, saves,
                    store_missing >>

(* the process is killed somewhere inside main() *)
Crash ==
    /\ pc \in Running
    /\ pc' = "killed"
    /\ crashed' = TRUE
    /\ UNCHANGED << file_exists, file, creds, seen_listings, listings, i, sent,
                    new_listings_count, email_sent_count, cycle, initSeen,
                    seenAtStart, storeAtStart, fetch_failed, raw_cards,
                    attempts, trace, succeeded, succeededPrev, url,
                    listing_id, saves,
                    store_missing >>

Next ==
    \/ StartCycle
    \/ Load
    \/ Search
    \/ Check
    \/ Notify
    \/ Save
    \/ Add
    \/ Crash

Spec == Init /\ [][Next]_vars

TypeOK ==
    /\ pc \in {"idle", "done", "killed"} \cup Running
    /\ i \in 0..(MaxCards + 1)
    /\ Len(listings) <= MaxCards
    /\ Len(trace) <= Len(listings)
    /\ new_listings_count \in 0..MaxCards
    /\ email_sent_count \in 0..MaxCards

----------------------------------------------------------------------------
(* Helpers of the claims about main() *)

(* the price a listing's text shows: its first run of digits, thousands     *)
(* separators dropped; not resolvable when the text has no digit            *)
DigitValue(c) ==
    CASE c = "0" -> 0 [] c = "1" -> 1 [] c = "2" -> 2 [] c = "3" -> 3
      [] c = "4" -> 4 [] c = "5" -> 5 [] c = "6" -> 6 [] c = "7" -> 7
      [] c = "8" -> 8 [] c = "9" -> 9

RECURSIVE DigitsToNumber(_, _, _)
DigitsToNumber(t, k, acc) ==
    IF k <= Len(t) /\ IsDigit(t[k])
    THEN DigitsToNumber(t, k + 1, 10 * acc + DigitValue(t[k]))
    ELSE acc

PriceResolvable(text) == \E k \in 1..Len(text) : IsDigit(text[k])

ResolvedPrice(text) ==
    LET t == SelectSeq(text, LAMBDA c : c # ",")
        ds == {k \in 1..Len(t) : IsDigit(t[k])}
    IN  DigitsToNumber(t, CHOOSE k \in ds : \A j \in ds : k <= j, 0)

(* the listing's price is resolvable and inside [PRICE_MIN, PRICE_MAX] *)
PriceInRange(text) ==
    /\ PriceResolvable(text)
    /\ PRICE_MIN <= ResolvedPrice(text)
    /\ ResolvedPrice(text) <= PRICE_MAX

(* the notify calls of this cycle made for id *)
AttemptsFor(id) == {a \in 1..Len(attempts) : attempts[a].id = id}

----------------------------------------------------------------------------
(* Claim C1 *)

(* C1: every id in the persisted store that was not there before the first  *)
(* cycle is an id for which send_email_notification has returned True, in   *)
(* every reachable state, crashes inside main() included; and a step        *)
(* changes the file only by appending the line of the id whose notify call  *)
(* has just returned True.                                                  *)
C1_NotifyThenRecord ==
    /\ [](\A x \in seen_ids(file) : x \in initSeen \/ x \in succeeded)
    /\ [][file' # file =>
            /\ attempts # <<>>
            /\ attempts[Len(attempts)].ok
            /\ attempts[Len(attempts)].id \in succeeded
            /\ file' = file \o attempts[Len(attempts)].id \o << "\n" >>]_vars

(* a process was killed after it had recorded a new id *)
C1_Witness ==
    /\ pc = "killed"
    /\ seen_ids(file) # initSeen
    /\ \E a \in 1..Len(attempts) : ~attempts[a].ok

----------------------------------------------------------------------------
(* Claim C2 *)

(* C2 as stated: when no process has crashed, no notify call of a cycle is  *)
(* for an id whose notify call returned True in an earlier cycle.           *)
C2_NoRenotifyAfterSuccess ==
    ~crashed => \A a \in 1..Len(attempts) : attempts[a].id \notin succeededPrev

----------------------------------------------------------------------------
(* Claim C3 *)

(* C3 as stated: when a cycle has ended, every listing of the fetch result  *)
(* with a resolvable price inside [PRICE_MIN, PRICE_MAX] and an id outside  *)
(* the set loaded at the start of the cycle has had exactly one notify      *)
(* call in the cycle.                                                       *)
C3_ExactlyOneAttempt ==
    pc = "done" =>
        \A k \in 1..Len(listings) :
            (/\ PriceInRange(listings[k].price)
             /\ listings[k].id \notin seenAtStart)
            => Cardinality(AttemptsFor(listings[k].id)) = 1

----------------------------------------------------------------------------
(* Claim C4 *)

(* C4: a notify call that returns False leaves the file and the in-memory   *)
(* set as they were and moves the loop to the next listing; the id of a     *)
(* listing whose notify calls all failed is in neither the set nor the      *)
(* store; and a cycle that ends has gone through every listing, each one    *)
(* either found in the set or notified.                                     *)
C4_FailureLeavesUnseenAndContinues ==
    /\ [][(pc = "notify" /\ pc' # "killed" /\ ~sent') =>
            /\ file' = file
            /\ seen_listings' = seen_listings
            /\ i' = i + 1
            /\ pc' = IF i' > Len(listings) THEN "done" ELSE "check"]_vars
    /\ [](\A a \in 1..Len(attempts) :
            (\A b \in AttemptsFor(attempts[a].id) : ~attempts[b].ok)
            => /\ attempts[a].id \notin seen_listings
               /\ attempts[a].id \notin seen_ids(file))
    /\ []((pc = "done" /\ listings # <<>>) =>
            /\ Len(trace) = Len(listings)
            /\ \A k \in 1..Len(listings) :
                  trace[k] # "skip" <=> \E a \in 1..Len(attempts) : attempts[a].idx = k)

(* a cycle ended in which a notify call failed and a later listing was      *)
(* notified                                                                 *)
C4_Witness ==
    /\ pc = "done"
    /\ Len(trace) >= 2
    /\ trace[1] = "failed"
    /\ trace[2] = "sent"
    /\ listings[1].id \notin seen_listings

----------------------------------------------------------------------------
(* Claim C5 *)

----------------------------------------------------------------------------
(* Claim C6 *)

(* C6 as stated: a listing whose resolved price is below PRICE_MIN or above *)
(* PRICE_MAX is dropped from the result and never notified or recorded; a   *)
(* listing priced at PRICE_MIN or PRICE_MAX is kept and, when a cycle ends, *)
(* has been notified unless its id was seen.                                *)
C6_PriceFilterInclusive ==
    /\ \A k \in 1..Len(listings) :
          PriceResolvable(listings[k].price) => PriceInRange(listings[k].price)
    /\ \A a \in 1..Len(attempts) :
          PriceResolvable(listings[attempts[a].idx].price)
          => PriceInRange(listings[attempts[a].idx].price)
    /\ pc = "done" =>
          \A k \in 1..Len(listings) :
              (/\ PriceResolvable(listings[k].price)
               /\ ResolvedPrice(listings[k].price) \in {PRICE_MIN, PRICE_MAX})
              => \/ AttemptsFor(listings[k].id) # {}
                 \/ listings[k].id \in seenAtStart

----------------------------------------------------------------------------
(* Claim C7 *)

(* C7: the loop iteration of a listing whose id is in the in-memory set     *)
(* makes no notify call and leaves the file, the set and the counters as    *)
(* they were; it only moves on to the next listing.                         *)
C7_SeenIsSkippedWithoutEffect ==
    [][(pc = "check" /\ pc' # "killed" /\ listings[i].id \in seen_listings) =>
          /\ attempts' = attempts
          /\ succeeded' = succeeded
          /\ file' = file
          /\ file_exists' = file_exists
          /\ seen_listings' = seen_listings
          /\ new_listings_count' = new_listings_count
          /\ email_sent_count' = email_sent_count
          /\ i' = i + 1
          /\ pc' \in {"check", "done"}]_vars

(* a listing was skipped because an earlier run had recorded its id *)
C7_Witness ==
    /\ pc \in {"check", "done"}
    /\ trace # <<>>
    /\ trace[Len(trace)] = "skip"
    /\ listings[Len(trace)].id \in seenAtStart

----------------------------------------------------------------------------
(* Claim C8 *)

(* C8 as stated: every record of the list one extraction returns has a      *)
(* non-empty id, and no two records of the list have the same id.           *)
C8_IdsNonEmptyAndUnique ==
    \A k \in 1..Len(listings) :
        /\ listings[k].id # <<>>
        /\ \A j \in 1..Len(listings) : listings[j].id = listings[k].id => j = k

----------------------------------------------------------------------------
(* Claim C9 *)

(* the run of digits the URL ends with, after an optional final '/' *)
TrailingNumeric(u) ==
    LET body == IF u # <<>> /\ u[Len(u)] = "/" THEN SubSeq(u, 1, Len(u) - 1) ELSE u
        starts == {k \in 1..(Len(body) + 1) :
                      \A m \in k..Len(body) : IsDigit(body[m])}
        first == CHOOSE k \in starts : \A j \in starts : k <= j
    IN  SubSeq(body, first, Len(body))

EndsWithDashDigits(u, d) ==
    \E k \in 1..Len(u) : \E e \in (k + 1)..Len(u) :
        /\ u[k] = "-"
        /\ \A m \in (k + 1)..e : IsDigit(u[m])
        /\ d = SubSeq(u, k + 1, e)
        /\ \/ e = Len(u)
           \/ (e = Len(u) - 1 /\ u[Len(u)] = "/")

(* d is what follows the last '/' of the URL (all of it when it has none) *)
AfterLastSlash(u, d) ==
    \E j \in 0..Len(u) :
        /\ j > 0 => u[j] = "/"
        /\ \A m \in (j + 1)..Len(u) : u[m] # "/"
        /\ d = SubSeq(u, j + 1, Len(u))

----------------------------------------------------------------------------
(* Direct calls of save_listing_id and load_seen_listings *)
IdAlphabet == {"1", "a"}
StoreIds == SeqsUpTo(IdAlphabet, MaxIdLen)

InitStore ==
    /\ \E f \in InitFiles :
          /\ file_exists = f.exists
          /\ file = f.content
          /\ initSeen = seen_ids(f.content)
    /\ creds = TRUE
    /\ seen_listings = {} /\ listings = <<>> /\ i = 0 /\ sent = FALSE
    /\ new_listings_count = 0 /\ email_sent_count = 0
    /\ cycle = 0 /\ crashed = FALSE /\ seenAtStart = {}
    /\ storeAtStart = {} /\ fetch_failed = FALSE /\ raw_cards = <<>>
    /\ attempts = <<>> /\ trace = <<>> /\ succeeded = {} /\ succeededPrev = {}
    /\ pc = "store"
    /\ url = <<>>
    /\ listing_id \in StoreIds
    /\ saves = 0
    /\ store_missing = FALSE

(* save_listing_id(listing_id); storeAtStart keeps what a load gave after   *)
(* the first call                                                           *)
StoreSave ==
    /\ pc \in {"store", "store_loaded"}
    /\ saves < MaxSaves
    /\ file' = save_listing_id(file, listing_id)
    /\ file_exists' = TRUE
    /\ saves' = saves + 1
    /\ storeAtStart' = IF saves = 0 THEN seen_ids(file') ELSE storeAtStart
    /\ pc' = "store"
    /\ UNCHANGED << url, listing_id, creds, seen_listings, listings, i, sent,
                    new_listings_count, email_sent_count, cycle, crashed,
                    initSeen, seenAtStart, fetch_failed, raw_cards, attempts,
                    trace, succeeded, succeededPrev, store_missing >>

(* seen_listings = load_seen_listings() *)
StoreLoad ==
    /\ pc = "store"
    /\ LET r == load_seen_listings(file_exists, file)
       IN  /\ seen_listings' = r.ret
           /\ file_exists' = r.exists
           /\ file' = r.content
    /\ pc' = "store_loaded"
    /\ UNCHANGED << url, listing_id, saves, creds, listings, i, sent,
                    new_listings_count, email_sent_count, cycle, crashed,
                    initSeen, seenAtStart, storeAtStart, fetch_failed,
                    raw_cards, attempts, trace, succeeded, succeededPrev,
                    store_missing >>

NextStore == StoreSave \/ StoreLoad

SpecStore == InitStore /\ [][NextStore]_vars

----------------------------------------------------------------------------
(* Claim C10 *)

(* C10 as stated: after one or more save_listing_id(id) calls,              *)
(* load_seen_listings() returns a set that contains id, and that set is     *)
(* the one a load returned after the first call.                            *)
C10_SavedIdIsLoaded ==
    (pc = "store_loaded" /\ saves >= 1) =>
        /\ listing_id \in seen_listings
        /\ seen_listings = storeAtStart

----------------------------------------------------------------------------
(* Claim C11 *)

(* C11: when no store exists, load_seen_listings returns the empty set,     *)
(* leaves an existing empty store behind and main() goes on to the search;  *)
(* the cycle then skips no listing except one whose id it has itself        *)
(* notified successfully before, so every fetched id is treated as unseen.  *)
C11_FirstRunLoadsEmptySet ==
    /\ [][(pc = "load" /\ pc' # "killed" /\ ~file_exists) =>
            /\ seen_listings' = {}
            /\ file_exists'
            /\ file' = <<>>
            /\ pc' = "search"]_vars
    /\ []((store_missing /\ pc \in Running \ {"load"}) => file_exists)
    /\ []((store_missing /\ pc = "done") =>
            /\ seenAtStart = {}
            /\ Len(trace) = Len(listings)
            /\ \A k \in 1..Len(trace) :
                  trace[k] = "skip" =>
                      \E a \in 1..Len(attempts) :
                          /\ attempts[a].ok
                          /\ attempts[a].idx < k
                          /\ attempts[a].id = listings[k].id)

(* a first run ended after it had notified a fetched listing *)
C11_Witness ==
    /\ store_missing
    /\ pc = "done"
    /\ file_exists
    /\ \E a \in 1..Len(attempts) : attempts[a].ok

----------------------------------------------------------------------------
(* Claim C12 *)

(* the lines the successful notify calls of a list of attempts append *)
RECURSIVE WrittenBy(_)
WrittenBy(atts) ==
    IF atts = <<>> THEN <<>>
    ELSE (IF Head(atts).ok THEN Head(atts).id \o << "\n" >> ELSE <<>>)
         \o WrittenBy(Tail(atts))

(* C12: the notify calls of a cycle are made for listings at increasing     *)
(* positions of the extracted list; and whenever the loop is at a listing   *)
(* (checking it, notifying it, or past the last one), the file ends with    *)
(* the lines of all ids notified successfully so far in the cycle, in       *)
(* that order, after the content the cycle started with.                    *)
C12_AttemptsInExtractionOrder ==
    /\ \A a \in 1..Len(attempts) :
          /\ attempts[a].idx \in 1..Len(listings)
          /\ attempts[a].id = listings[attempts[a].idx].id
          /\ \A b \in 1..Len(attempts) : a < b => attempts[a].idx < attempts[b].idx
    /\ pc \in {"check", "notify", "add", "done"} =>
          LET w == WrittenBy(attempts)
          IN  /\ Len(w) <= Len(file)
              /\ SubSeq(file, Len(file) - Len(w) + 1, Len(file)) = w
              /\ seen_ids(SubSeq(file, 1, Len(file) - Len(w))) = storeAtStart
    /\ pc \in {"check", "notify"} =>
          \A a \in 1..Len(attempts) : attempts[a].idx < i

(* the loop is at the second listing, the id of the first is in the store *)
C12_Witness ==
    /\ pc = "check"
    /\ i = 2
    /\ Len(attempts) = 1
    /\ attempts[1].ok
    /\ attempts[1].id # <<>>
    /\ attempts[1].id \in seen_ids(file)
    /\ attempts[1].id \notin storeAtStart

----------------------------------------------------------------------------
(* Claim C13 *)

(* an entry without a usable listing link, or one that raises when read *)
Malformed(card) ==
    \/ card.broken
    \/ ~card.link_found
    \/ card.href = <<>>
    \/ \A k \in 1..Len(card.href) : card.href[k] # "daft.ie"

(* C13: when the fetch did not fail and exactly one of the N entries of     *)
(* the page is malformed, the extracted list holds the N-1 records of the   *)
(* other entries, in the order of the page.                                 *)
C13_MalformedEntryIsolated ==
    (~fetch_failed /\ Cardinality({k \in 1..Len(raw_cards) : Malformed(raw_cards[k])}) = 1) =>
        LET m == CHOOSE k \in 1..Len(raw_cards) : Malformed(raw_cards[k])
            src(k) == IF k < m THEN raw_cards[k] ELSE raw_cards[k + 1]
        IN  /\ Len(listings) = Len(raw_cards) - 1
            /\ \A k \in 1..Len(listings) :
                  /\ listings[k].link = src(k).href
                  /\ listings[k].id = extract_listing_id(src(k).href)

(* a page whose first entry raised and whose second entry was extracted *)
C13_Witness ==
    /\ ~fetch_failed
    /\ Len(raw_cards) = 2
    /\ raw_cards[1].broken
    /\ ~Malformed(raw_cards[2])
    /\ Len(listings) = 1
    /\ listings[1].link = raw_cards[2].href

----------------------------------------------------------------------------
(* Claim C14 *)

(* the card shows no price: no price element, or a text without a digit *)
UnknownPrice(card) ==
    card.price_src = "none" \/ ~PriceResolvable(card.price_text)

(* C14: when the fetch did not fail, every well-formed entry whose price    *)
(* is unknown has its record, with an unresolvable price, in the extracted  *)
(* list; and when the cycle ends, every record with an unresolvable price   *)
(* has had a notify call unless its id was in the loaded set or had been    *)
(* notified successfully earlier in the cycle.                              *)
C14_UnknownPriceIsKept ==
    /\ ~fetch_failed =>
          \A k \in 1..Len(raw_cards) :
              (~Malformed(raw_cards[k]) /\ UnknownPrice(raw_cards[k])) =>
                  \E j \in 1..Len(listings) :
                      /\ listings[j].link = raw_cards[k].href
                      /\ ~PriceResolvable(listings[j].price)
    /\ pc = "done" =>
          \A j \in 1..Len(listings) :
              ~PriceResolvable(listings[j].price) =>
                  \/ \E a \in 1..Len(attempts) : attempts[a].idx = j
                  \/ listings[j].id \in seenAtStart
                  \/ \E a \in 1..Len(attempts) :
                        /\ attempts[a].ok
                        /\ attempts[a].idx < j
                        /\ attempts[a].id = listings[j].id

(* a cycle ended that made a notify call for a listing without a price *)
C14_Witness ==
    /\ pc = "done"
    /\ \E a \in 1..Len(attempts) :
          /\ ~PriceResolvable(listings[attempts[a].idx].price)
          /\ \E k \in 1..Len(raw_cards) :
                /\ raw_cards[k].price_src = "none"
                /\ raw_cards[k].href = listings[attempts[a].idx].link

----------------------------------------------------------------------------
(* Claim C15 *)

(* C15 as stated: a cycle started without the notifier credentials does no  *)
(* per-listing processing, makes no notify call, leaves the ids of the      *)
(* store as they were, and does not end as a normally completed cycle.      *)
C15_MissingCredentialsAbort ==
    (cycle >= 1 /\ ~creds) =>
        /\ pc \notin {"check", "notify", "save", "add"}
        /\ trace = <<>>
        /\ attempts = <<>>
        /\ seen_ids(file) = storeAtStart
        /\ pc # "done"

----------------------------------------------------------------------------
(* Claim C16 *)

----------------------------------------------------------------------------
(* Claim C17 *)

(* C17: once a notify call of the cycle has returned True and its id has    *)
(* been recorded, the id is in the in-memory set; no later notify call of   *)
(* the cycle is for that id, and every later listing with that id is        *)
(* skipped.                                                                 *)
C17_SameIdSkippedAfterSuccess ==
    /\ pc \in {"check", "notify", "done"} =>
          \A a \in 1..Len(attempts) : attempts[a].ok => attempts[a].id \in seen_listings
    /\ \A a \in 1..Len(attempts) : \A b \in 1..Len(attempts) :
          (a < b /\ attempts[a].ok) => attempts[b].id # attempts[a].id
    /\ \A k \in 1..Len(trace) :
          (\E a \in 1..Len(attempts) :
              /\ attempts[a].ok
              /\ attempts[a].idx < k
              /\ attempts[a].id = listings[k].id)
          => trace[k] = "skip"

(* the second of two listings with the same new id was skipped after the    *)
(* first had been notified                                                  *)
C17_Witness ==
    /\ Len(trace) >= 2
    /\ trace[1] = "sent"
    /\ trace[2] = "skip"
    /\ listings[1].id = listings[2].id
    /\ listings[1].id \notin seenAtStart

----------------------------------------------------------------------------
(* Claim C18 *)

(* C18 as stated: when a cycle has ended or been killed, an id whose notify *)
(* calls of the cycle all failed, or whose successful notify was not yet    *)
(* persisted when the process was killed, is not in the store the next      *)
(* cycle loads; a cycle that ends has made a notify call for every fetched  *)
(* id that was not in the set it loaded; and an id whose notify call has    *)
(* succeeded in a cycle that ends is recorded in the store, so that it is   *)
(* eventually seen.                                                         *)
C18_UnconfirmedIdIsRetriedUntilSeen ==
    /\ pc \in {"done", "killed"} =>
          \A a \in 1..Len(attempts) :
              (\/ \A b \in AttemptsFor(attempts[a].id) : ~attempts[b].ok
               \/ (pc = "killed" /\ a = Len(attempts) /\ attempts[a].ok
                   /\ Len(trace) < attempts[a].idx
                   /\ seen_ids(file) = storeAtStart))
              => attempts[a].id \notin seen_ids(file)
    /\ pc = "done" =>
          \A k \in 1..Len(listings) :
              listings[k].id \notin seenAtStart => AttemptsFor(listings[k].id) # {}
    /\ pc = "done" =>
          \A a \in 1..Len(attempts) :
              attempts[a].ok => attempts[a].id \in seen_ids(file)

----------------------------------------------------------------------------
(* Two processes running main() at the same time against the same file,    *)
(* src/main.py:340-383; pc, seen_listings, listings, i, sent, the counters  *)
(* and attempts are kept per process                                        *)
MaxOverlapCards == 1

Procs == {1, 2}

OverlapPages == SeqsUpTo({CardRoom1, CardRoom2}, MaxOverlapCards)

InitOverlap ==
    /\ \E f \in InitFiles :
          /\ file_exists = f.exists
          /\ file = f.content
          /\ initSeen = seen_ids(f.content)
          /\ storeAtStart = seen_ids(f.content)
          /\ store_missing = ~f.exists
    /\ pc = [p \in Procs |-> "load"]
    /\ creds = TRUE
    /\ seen_listings = [p \in Procs |-> {}]
    /\ listings = [p \in Procs |-> <<>>]
    /\ i = [p \in Procs |-> 0]
    /\ sent = [p \in Procs |-> FALSE]
    /\ new_listings_count = [p \in Procs |-> 0]
    /\ email_sent_count = [p \in Procs |-> 0]
    /\ attempts = [p \in Procs |-> <<>>]
    /\ cycle = 1 /\ crashed = FALSE /\ seenAtStart = {}
    /\ fetch_failed = FALSE /\ raw_cards = <<>> /\ trace = <<>>
    /\ succeeded = {} /\ succeededPrev = {}
    /\ url = <<>> /\ listing_id = <<>> /\ saves = 0

overlapFrame ==
    << creds, cycle, crashed, initSeen, seenAtStart, storeAtStart,
       fetch_failed, raw_cards, trace, succeededPrev, url, listing_id, saves,
       store_missing >>

(* line 348 *)
OverlapLoad(p) ==
    /\ pc[p] = "load"
    /\ LET r == load_seen_listings(file_exists, file)
       IN  /\ seen_listings' = [seen_listings EXCEPT ![p] = r.ret]
           /\ file_exists' = r.exists
           /\ file' = r.content
    /\ pc' = [pc EXCEPT ![p] = "search"]
    /\ UNCHANGED << listings, i, sent, new_listings_count, email_sent_count,
                    attempts, succeeded >>
    /\ UNCHANGED overlapFrame

(* lines 351-359 *)
OverlapSearch(p) ==
    /\ pc[p] = "search"
    /\ \E raises \in BOOLEAN :
       \E cards \in OverlapPages :
          listings' = [listings EXCEPT ![p] = search_daft_listings(cards, raises)]
    /\ IF listings'[p] = <<>>
       THEN /\ pc' = [pc EXCEPT ![p] = "done"]
            /\ UNCHANGED << i, new_listings_count, email_sent_count >>
       ELSE /\ new_listings_count' = [new_listings_count EXCEPT ![p] = 0]
            /\ email_sent_count' = [email_sent_count EXCEPT ![p] = 0]
            /\ i' = [i EXCEPT ![p] = 1]
            /\ pc' = [pc EXCEPT ![p] = "check"]
    /\ UNCHANGED << file_exists, file, seen_listings, sent, attempts, succeeded >>
    /\ UNCHANGED overlapFrame

(* lines 362-369 *)
OverlapCheck(p) ==
    /\ pc[p] = "check"
    /\ IF is_seen(listings[p][i[p]].id, seen_listings[p])
       THEN /\ i' = [i EXCEPT ![p] = i[p] + 1]
            /\ pc' = [pc EXCEPT ![p] = next_listing(Len(listings[p]), i'[p])]
            /\ UNCHANGED new_listings_count
       ELSE /\ new_listings_count' =
                  [new_listings_count EXCEPT ![p] = new_listings_count[p] + 1]
            /\ pc' = [pc EXCEPT ![p] = "notify"]
            /\ UNCHANGED i
    /\ UNCHANGED << file_exists, file, seen_listings, listings, sent,
                    email_sent_count, attempts, succeeded >>
    /\ UNCHANGED overlapFrame

(* lines 372, 377-378 *)
OverlapNotify(p) ==
    /\ pc[p] = "notify"
    /\ \E smtp_ok \in BOOLEAN :
          sent' = [sent EXCEPT ![p] = send_email_notification(creds, smtp_ok)]
    /\ attempts' = [attempts EXCEPT ![p] =
          Append(attempts[p],
                 [idx |-> i[p], id |-> listings[p][i[p]].id, ok |-> sent'[p]])]
    /\ succeeded' = IF sent'[p] THEN succeeded \cup {listings[p][i[p]].id}
                                ELSE succeeded
    /\ IF mark_as_seen(sent'[p])
       THEN /\ pc' = [pc EXCEPT ![p] = "save"]
            /\ UNCHANGED i
       ELSE /\ i' = [i EXCEPT ![p] = i[p] + 1]
            /\ pc' = [pc EXCEPT ![p] = after_failure(Len(listings[p]), i'[p])]
    /\ UNCHANGED << file_exists, file, seen_listings, listings,
                    new_listings_count, email_sent_count >>
    /\ UNCHANGED overlapFrame

(* line 374 *)
OverlapSave(p) ==
    /\ pc[p] = "save"
    /\ file' = save_listing_id(file, listings[p][i[p]].id)
    /\ file_exists' = TRUE
    /\ pc' = [pc EXCEPT ![p] = "add"]
    /\ UNCHANGED << seen_listings, listings, i, sent, new_listings_count,
                    email_sent_count, attempts, succeeded >>
    /\ UNCHANGED overlapFrame

(* lines 375-376 and back to line 361 *)
OverlapAdd(p) ==
    /\ pc[p] = "add"
    /\ seen_listings' =
          [seen_listings EXCEPT ![p] = add_seen(seen_listings[p], listings[p][i[p]].id)]
    /\ email_sent_count' = [email_sent_count EXCEPT ![p] = email_sent_count[p] + 1]
    /\ i' = [i EXCEPT ![p] = i[p] + 1]
    /\ pc' = [pc EXCEPT ![p] = next_listing(Len(listings[p]), i'[p])]
    /\ UNCHANGED << file_exists, file, listings, sent, new_listings_count,
                    attempts, succeeded >>
    /\ UNCHANGED overlapFrame

NextOverlap ==
    \E p \in Procs :
        \/ OverlapLoad(p)
        \/ OverlapSearch(p)
        \/ OverlapCheck(p)
        \/ OverlapNotify(p)
        \/ OverlapSave(p)
        \/ OverlapAdd(p)

SpecOverlap == InitOverlap /\ [][NextOverlap]_vars

----------------------------------------------------------------------------
(* Claim C19 *)

(* C19 as stated: of two processes whose cycles overlap on the same file,   *)
(* at most one sends a notification for an id that was not in the store     *)
(* when they started.                                                       *)
C19_OverlapNotifiesOnce ==
    \A a \in 1..Len(attempts[1]) : \A b \in 1..Len(attempts[2]) :
        (/\ attempts[1][a].ok
         /\ attempts[2][b].ok
         /\ attempts[1][a].id \notin initSeen)
        => attempts[1][a].id # attempts[2][b].id

----------------------------------------------------------------------------
(* Claim C20 *)

(* C20 as stated: at the start of every per-listing iteration and at the    *)
(* end of a cycle, the in-memory set seen_listings is the set that          *)
(* load_seen_listings would return from the file at that moment.            *)
C20_MemoryAgreesWithStore ==
    pc \in {"check", "done"} =>
        seen_listings = load_seen_listings(file_exists, file).ret

====
